---- MODULE Spec2Model ----
(***************************************************************************)
(* Model of geos::edgegraph::EdgeGraph (src/edgegraph/EdgeGraph.cpp).      *)
(*                                                                         *)
(* State: the graph's owned half-edge storage `edges` and the `vertexMap`  *)
(* from coordinate to one half-edge leaving it.  A half-edge handle is its *)
(* index in `edges` (per-object allocation: a handle never moves); Null is *)
(* nullptr.  Every public operation is one atomic action (the class is     *)
(* single-threaded).  The HalfEdge record (link / find / insert) and the   *)
(* Coordinate comparator are declared in headers outside this translation  *)
(* unit and are modelled from the specification's description of them.     *)
(***************************************************************************)
EXTENDS Integers, Sequences, FiniteSets, TLC

\* ------------------------------------------------------------------ bounds
\* cap on the number of undirected edges stored
MaxEdges == 3
\* the same cap for the caller that remembers first results
MaxHistEdges == 2
\* half-edges per bulk array (EDGEGRAPH_HEAPHACK), kept small so that the
\* arrays fill up and new ones are added
HalfEdgeArraySize == 3

Null == 0

\* the coordinates callers pass: three collinear points (two edges leaving
\* an end point share a direction) and one point off the line
Coords == { <<0, 0>>, <<1, 0>>, <<2, 0>>, <<1, 1>> }

VARIABLES edges, vertexMap, op, ret, edgesOut, accepted, firstRet, isRepeat

\* the same graph built with EDGEGRAPH_HEAPHACK: heapEdges is the bulk
\* arrays laid end to end (slot i of array a is at a * HalfEdgeArraySize +
\* i + 1, which is the handle of the half-edge in it), handed the handles
\* createEdge has returned so far, in order
VARIABLES heapEdges, heapVertexMap, edgeArrayCount, edgeCount, handed, heapRet

heapVars == <<heapEdges, heapVertexMap, edgeArrayCount, edgeCount, handed, heapRet>>

vars == <<edges, vertexMap, op, ret, edgesOut, accepted, firstRet, isRepeat,
          heapEdges, heapVertexMap, edgeArrayCount, edgeCount, handed, heapRet>>

\* ------------------------------------------------------------ Coordinate
Sign(n) == IF n > 0 THEN 1 ELSE IF n < 0 THEN -1 ELSE 0

\* Coordinate::compareTo: total order, x first, then y
compareTo(a, b) ==
    IF a[1] < b[1] THEN -1
    ELSE IF a[1] > b[1] THEN 1
    ELSE IF a[2] < b[2] THEN -1
    ELSE IF a[2] > b[2] THEN 1
    ELSE 0

\* ---------------------------------------------------------------- HalfEdge
HalfEdge(orig) == [orig |-> orig, sym |-> Null, next |-> Null]

\* destination of a linked half-edge: the origin of its sym
dest(es, h) == es[es[h].sym].orig

\* HalfEdge::link : sym of each is the other, next of each is itself
HalfEdge_link(es, e0, e1) ==
    [es EXCEPT ![e0].sym = e1, ![e0].next = e0,
               ![e1].sym = e0, ![e1].next = e1]

RECURSIVE findWalk(_, _, _, _, _)
findWalk(es, self, cur, d, fuel) ==
    IF cur = Null THEN Null
    ELSE IF dest(es, cur) = d THEN cur
    ELSE IF es[cur].next = self \/ fuel = 0 THEN Null
    ELSE findWalk(es, self, es[cur].next, d, fuel - 1)

\* HalfEdge::find : walk next from self until a half-edge to d is met or
\* the walk is back at self
HalfEdge_find(es, self, d) == findWalk(es, self, self, d, Len(es))

RECURSIVE findTrace(_, _, _, _, _)
\* the same walk as HalfEdge::find, reporting how it ended and how many
\* times next was followed; "unbounded" is a walk that has followed next
\* more often than there are half-edges without an exit
findTrace(es, self, cur, d, n) ==
    IF cur = Null THEN [end |-> "null", steps |-> n]
    ELSE IF dest(es, cur) = d THEN [end |-> "found", steps |-> n]
    ELSE IF es[cur].next = self THEN [end |-> "closed", steps |-> n + 1]
    ELSE IF n >= Len(es) THEN [end |-> "unbounded", steps |-> n]
    ELSE findTrace(es, self, es[cur].next, d, n + 1)

\* quadrant of a direction vector, counterclockwise from the positive x axis
Quadrant(dx, dy) ==
    IF dx >= 0 /\ dy >= 0 THEN 0
    ELSE IF dx < 0 /\ dy >= 0 THEN 1
    ELSE IF dx < 0 /\ dy < 0 THEN 2
    ELSE 3

\* angular order of two half-edges around a shared origin, by comparisons
\* only: quadrant first, then the sign of the cross product
compareAngularDirection(es, a, b) ==
    LET dx  == dest(es, a)[1] - es[a].orig[1]
        dy  == dest(es, a)[2] - es[a].orig[2]
        dx2 == dest(es, b)[1] - es[b].orig[1]
        dy2 == dest(es, b)[2] - es[b].orig[2]
    IN  IF dx = dx2 /\ dy = dy2 THEN 0
        ELSE IF Quadrant(dx, dy) > Quadrant(dx2, dy2) THEN 1
        ELSE IF Quadrant(dx, dy) < Quadrant(dx2, dy2) THEN -1
        ELSE Sign(dx2 * dy - dy2 * dx)

RECURSIVE insertionEdge(_, _, _, _, _)
insertionEdge(es, self, ePrev, eAdd, fuel) ==
    LET eNext == es[ePrev].next
        up    == compareAngularDirection(es, eNext, ePrev) > 0
        geP   == compareAngularDirection(es, eAdd, ePrev) >= 0
        leN   == compareAngularDirection(es, eAdd, eNext) <= 0
    IN  IF up /\ geP /\ leN THEN ePrev
        ELSE IF ~up /\ (leN \/ geP) THEN ePrev
        ELSE IF eNext = self \/ fuel = 0 THEN self
        ELSE insertionEdge(es, self, eNext, eAdd, fuel - 1)

RECURSIVE insertionTrace(_, _, _, _, _)
\* the same scan as insertionEdge, reporting whether an insertion point was
\* met before the scan was back at self, and after how many moves
insertionTrace(es, self, ePrev, eAdd, n) ==
    LET eNext == es[ePrev].next
        up    == compareAngularDirection(es, eNext, ePrev) > 0
        geP   == compareAngularDirection(es, eAdd, ePrev) >= 0
        leN   == compareAngularDirection(es, eAdd, eNext) <= 0
    IN  IF (up /\ geP /\ leN) \/ (~up /\ (leN \/ geP))
        THEN [end |-> "placed", steps |-> n]
        ELSE IF eNext = self \/ n >= Len(es)
        THEN [end |-> "unplaced", steps |-> n + 1]
        ELSE insertionTrace(es, self, eNext, eAdd, n + 1)

insertAfter(es, ePrev, e) ==
    [es EXCEPT ![e].next = es[ePrev].next, ![ePrev].next = e]

\* HalfEdge::insert : splice eAdd into the ring of self at its angular
\* position
HalfEdge_insert(es, self, eAdd) ==
    insertAfter(es, insertionEdge(es, self, self, eAdd, Len(es)), eAdd)

\* --------------------------------------------------------------- EdgeGraph
\* std::map lookup: the mapped half-edge, or nullptr when the key is absent
MapFind(vm, k) == IF k \in DOMAIN vm THEN vm[k] ELSE Null

\* std::map operator[] assignment
MapPut(vm, k, v) == [x \in (DOMAIN vm) \cup {k} |-> IF x = k THEN v ELSE vm[x]]

\* EdgeGraph::createEdge : append a fresh unlinked half-edge; its handle is
\* the new length of the storage
createEdge(es, orig) == Append(es, HalfEdge(orig))

\* slip: both half-edges are created at p0
create_sameOrigin(es, p0, p1) ==
    LET es1 == createEdge(es, p0)
        e0  == Len(es1)
        es2 == createEdge(es1, p0)
        e1  == Len(es2)
    IN  [edges |-> HalfEdge_link(es2, e0, e1), ret |-> e0]

\* EdgeGraph::create
create(es, p0, p1) ==
    LET es1 == createEdge(es, p0)
        e0  == Len(es1)
        es2 == createEdge(es1, p1)
        e1  == Len(es2)
    IN  [edges |-> HalfEdge_link(es2, e0, e1), ret |-> e0]

\* slip: no edge is rejected
isValidEdge_always(orig, d) == TRUE

\* EdgeGraph::isValidEdge
isValidEdge(orig, d) == compareTo(d, orig) # 0

\* slip: the sym half-edge is registered as the entry of the destination
\* even when the destination is already a vertex
insert_noSymSplice(es, vm, orig, d, eAdj) ==
    LET c   == create(es, orig, d)
        e   == c.ret
        es1 == IF eAdj # Null THEN HalfEdge_insert(c.edges, eAdj, e)
               ELSE c.edges
        vm1 == IF eAdj # Null THEN vm ELSE MapPut(vm, orig, e)
    IN  [edges |-> es1, vertexMap |-> MapPut(vm1, d, es1[e].sym), ret |-> e]

\* slip: the new half-edge is not spliced into the ring of a known origin
insert_noOrigSplice(es, vm, orig, d, eAdj) ==
    LET c        == create(es, orig, d)
        e        == c.ret
        es1      == c.edges
        vm1      == IF eAdj # Null THEN vm ELSE MapPut(vm, orig, e)
        eAdjDest == MapFind(vm1, d)
        es2      == IF eAdjDest # Null
                    THEN HalfEdge_insert(es1, eAdjDest, es1[e].sym)
                    ELSE es1
        vm2      == IF eAdjDest # Null THEN vm1
                    ELSE MapPut(vm1, d, es1[e].sym)
    IN  [edges |-> es2, vertexMap |-> vm2, ret |-> e]

\* slip: the new half-edge replaces the entry of a known origin instead of
\* joining its ring
insert_overwriteOrig(es, vm, orig, d, eAdj) ==
    LET c        == create(es, orig, d)
        e        == c.ret
        es1      == c.edges
        vm1      == MapPut(vm, orig, e)
        eAdjDest == MapFind(vm1, d)
        es2      == IF eAdjDest # Null
                    THEN HalfEdge_insert(es1, eAdjDest, es1[e].sym)
                    ELSE es1
        vm2      == IF eAdjDest # Null THEN vm1
                    ELSE MapPut(vm1, d, es1[e].sym)
    IN  [edges |-> es2, vertexMap |-> vm2, ret |-> e]

\* slip: the half-edge leaving the destination is returned
insert_retSym(es, vm, orig, d, eAdj) ==
    LET c        == create(es, orig, d)
        e        == c.ret
        es1      == IF eAdj # Null THEN HalfEdge_insert(c.edges, eAdj, e)
                    ELSE c.edges
        vm1      == IF eAdj # Null THEN vm ELSE MapPut(vm, orig, e)
        eAdjDest == MapFind(vm1, d)
        es2      == IF eAdjDest # Null
                    THEN HalfEdge_insert(es1, eAdjDest, es1[e].sym)
                    ELSE es1
        vm2      == IF eAdjDest # Null THEN vm1
                    ELSE MapPut(vm1, d, es1[e].sym)
    IN  [edges |-> es2, vertexMap |-> vm2, ret |-> es2[e].sym]

\* slip: an unknown destination is not registered in vertexMap
insert_noDestEntry(es, vm, orig, d, eAdj) ==
    LET c        == create(es, orig, d)
        e        == c.ret
        es1      == IF eAdj # Null THEN HalfEdge_insert(c.edges, eAdj, e)
                    ELSE c.edges
        vm1      == IF eAdj # Null THEN vm ELSE MapPut(vm, orig, e)
        eAdjDest == MapFind(vm1, d)
        es2      == IF eAdjDest # Null
                    THEN HalfEdge_insert(es1, eAdjDest, es1[e].sym)
                    ELSE es1
    IN  [edges |-> es2, vertexMap |-> vm1, ret |-> e]

\* slip: the destination's ring is taken from the first entry of the map
\* (vertexMap.begin()) instead of the entry found for the destination
insert_firstKeyDest(es, vm, orig, d, eAdj) ==
    LET c        == create(es, orig, d)
        e        == c.ret
        es1      == IF eAdj # Null THEN HalfEdge_insert(c.edges, eAdj, e)
                    ELSE c.edges
        vm1      == IF eAdj # Null THEN vm ELSE MapPut(vm, orig, e)
        k        == CHOOSE a \in DOMAIN vm1 :
                        \A b \in DOMAIN vm1 : compareTo(a, b) <= 0
        eAdjDest == vm1[k]
        es2      == IF eAdjDest # Null
                    THEN HalfEdge_insert(es1, eAdjDest, es1[e].sym)
                    ELSE es1
        vm2      == IF eAdjDest # Null THEN vm1
                    ELSE MapPut(vm1, d, es1[e].sym)
    IN  [edges |-> es2, vertexMap |-> vm2, ret |-> e]

\* slip: the new half-edge is linked to the known origin's entry instead of
\* being spliced into its ring
insert_linkOrig(es, vm, orig, d, eAdj) ==
    LET c        == create(es, orig, d)
        e        == c.ret
        es1      == IF eAdj # Null THEN HalfEdge_link(c.edges, eAdj, e)
                    ELSE c.edges
        vm1      == IF eAdj # Null THEN vm ELSE MapPut(vm, orig, e)
        eAdjDest == MapFind(vm1, d)
        es2      == IF eAdjDest # Null
                    THEN HalfEdge_insert(es1, eAdjDest, e + 1)
                    ELSE es1
        vm2      == IF eAdjDest # Null THEN vm1
                    ELSE MapPut(vm1, d, e + 1)
    IN  [edges |-> es2, vertexMap |-> vm2, ret |-> e]

\* slip: the new half-edge itself, not its sym, is spliced into the
\* destination's ring
insert_spliceWrongHalf(es, vm, orig, d, eAdj) ==
    LET c        == create(es, orig, d)
        e        == c.ret
        es1      == IF eAdj # Null THEN HalfEdge_insert(c.edges, eAdj, e)
                    ELSE c.edges
        vm1      == IF eAdj # Null THEN vm ELSE MapPut(vm, orig, e)
        eAdjDest == MapFind(vm1, d)
        es2      == IF eAdjDest # Null
                    THEN HalfEdge_insert(es1, eAdjDest, e)
                    ELSE es1
        vm2      == IF eAdjDest # Null THEN vm1
                    ELSE MapPut(vm1, d, es1[e].sym)
    IN  [edges |-> es2, vertexMap |-> vm2, ret |-> e]

\* EdgeGraph::insert
insert(es, vm, orig, d, eAdj) ==
    LET c        == create(es, orig, d)
        e        == c.ret
        es1      == IF eAdj # Null THEN HalfEdge_insert(c.edges, eAdj, e)
                    ELSE c.edges
        vm1      == IF eAdj # Null THEN vm ELSE MapPut(vm, orig, e)
        eAdjDest == MapFind(vm1, d)
        es2      == IF eAdjDest # Null
                    THEN HalfEdge_insert(es1, eAdjDest, es1[e].sym)
                    ELSE es1
        vm2      == IF eAdjDest # Null THEN vm1
                    ELSE MapPut(vm1, d, es1[e].sym)
    IN  [edges |-> es2, vertexMap |-> vm2, ret |-> e]

\* slip: the edge is inserted without looking for it first
addEdge_noFind(es, vm, orig, d) ==
    IF ~isValidEdge(orig, d)
    THEN [edges |-> es, vertexMap |-> vm, ret |-> Null]
    ELSE insert(es, vm, orig, d, MapFind(vm, orig))

\* slip: the ring is searched for the origin instead of the destination
addEdge_findOrig(es, vm, orig, d) ==
    IF ~isValidEdge(orig, d)
    THEN [edges |-> es, vertexMap |-> vm, ret |-> Null]
    ELSE LET eAdj  == MapFind(vm, orig)
             eSame == IF eAdj # Null THEN HalfEdge_find(es, eAdj, orig) ELSE Null
         IN  IF eSame # Null
             THEN [edges |-> es, vertexMap |-> vm, ret |-> eSame]
             ELSE insert(es, vm, orig, d, eAdj)

\* EdgeGraph::addEdge
addEdge(es, vm, orig, d) ==
    IF ~isValidEdge(orig, d)
    THEN [edges |-> es, vertexMap |-> vm, ret |-> Null]
    ELSE LET eAdj  == MapFind(vm, orig)
             eSame == IF eAdj # Null THEN HalfEdge_find(es, eAdj, d) ELSE Null
         IN  IF eSame # Null
             THEN [edges |-> es, vertexMap |-> vm, ret |-> eSame]
             ELSE insert(es, vm, orig, d, eAdj)

\* slip: the entry of the origin is returned without searching its ring
findEdge_noWalk(es, vm, orig, d) == MapFind(vm, orig)

\* EdgeGraph::findEdge
findEdge(es, vm, orig, d) ==
    LET e == MapFind(vm, orig)
    IN  IF e = Null THEN Null ELSE HalfEdge_find(es, e, d)

\* ---------------------------------------------- EdgeGraph, EDGEGRAPH_HEAPHACK
\* a freshly allocated std::array of half-edges, none of them assigned yet
NewArray == [i \in 1..HalfEdgeArraySize |-> [orig |-> <<>>, sym |-> Null, next |-> Null]]

\* slip: the array counter is not advanced when an array is full
createEdge_heap_noAdvance(H, orig) ==
    LET es0 == IF Len(H.edges) = 0 THEN NewArray ELSE H.edges
        he  == H.edgeArrayCount * HalfEdgeArraySize + H.edgeCount + 1
        es1 == [es0 EXCEPT ![he] = HalfEdge(orig)]
    IN  IF H.edgeCount + 1 = HalfEdgeArraySize
        THEN [edges |-> es1 \o NewArray, edgeArrayCount |-> H.edgeArrayCount,
              edgeCount |-> 0, handed |-> Append(H.handed, he), ret |-> he]
        ELSE [edges |-> es1, edgeArrayCount |-> H.edgeArrayCount,
              edgeCount |-> H.edgeCount + 1, handed |-> Append(H.handed, he),
              ret |-> he]

\* EdgeGraph::createEdge under EDGEGRAPH_HEAPHACK
createEdge_heap(H, orig) ==
    LET es0 == IF Len(H.edges) = 0 THEN NewArray ELSE H.edges
        he  == H.edgeArrayCount * HalfEdgeArraySize + H.edgeCount + 1
        es1 == [es0 EXCEPT ![he] = HalfEdge(orig)]
    IN  IF H.edgeCount + 1 = HalfEdgeArraySize
        THEN [edges |-> es1 \o NewArray, edgeArrayCount |-> H.edgeArrayCount + 1,
              edgeCount |-> 0, handed |-> Append(H.handed, he), ret |-> he]
        ELSE [edges |-> es1, edgeArrayCount |-> H.edgeArrayCount,
              edgeCount |-> H.edgeCount + 1, handed |-> Append(H.handed, he),
              ret |-> he]

\* EdgeGraph::create under EDGEGRAPH_HEAPHACK
create_heap(H, p0, p1) ==
    LET H1 == createEdge_heap(H, p0)
        e0 == H1.ret
        H2 == createEdge_heap(H1, p1)
        e1 == H2.ret
    IN  [H2 EXCEPT !.edges = HalfEdge_link(H2.edges, e0, e1), !.ret = e0]

\* EdgeGraph::insert under EDGEGRAPH_HEAPHACK
insert_heap(H, vm, orig, d, eAdj) ==
    LET c        == create_heap(H, orig, d)
        e        == c.ret
        es1      == IF eAdj # Null THEN HalfEdge_insert(c.edges, eAdj, e)
                    ELSE c.edges
        vm1      == IF eAdj # Null THEN vm ELSE MapPut(vm, orig, e)
        eAdjDest == MapFind(vm1, d)
        es2      == IF eAdjDest # Null
                    THEN HalfEdge_insert(es1, eAdjDest, es1[e].sym)
                    ELSE es1
        vm2      == IF eAdjDest # Null THEN vm1
                    ELSE MapPut(vm1, d, es1[e].sym)
    IN  [heap |-> [c EXCEPT !.edges = es2], vertexMap |-> vm2, ret |-> e]

\* EdgeGraph::addEdge under EDGEGRAPH_HEAPHACK
addEdge_heap(H, vm, orig, d) ==
    IF ~isValidEdge(orig, d)
    THEN [heap |-> H, vertexMap |-> vm, ret |-> Null]
    ELSE LET eAdj  == MapFind(vm, orig)
             eSame == IF eAdj # Null THEN HalfEdge_find(H.edges, eAdj, d) ELSE Null
         IN  IF eSame # Null
             THEN [heap |-> H, vertexMap |-> vm, ret |-> eSame]
             ELSE insert_heap(H, vm, orig, d, eAdj)

\* keys of the map in its iteration order (ascending by compareTo)
RECURSIVE SortedKeys(_)
SortedKeys(S) ==
    IF S = {} THEN <<>>
    ELSE LET m == CHOOSE a \in S : \A b \in S : compareTo(a, b) <= 0
         IN  <<m>> \o SortedKeys(S \ {m})

\* slip: the iteration starts one entry late
getVertexEdges_skipFirst(vm, out) ==
    LET ks == SortedKeys(DOMAIN vm)
    IN  out \o [i \in 1..(Len(ks) - 1) |-> vm[ks[i + 1]]]

\* EdgeGraph::getVertexEdges : push the mapped half-edge of every key
getVertexEdges(vm, out) ==
    LET ks == SortedKeys(DOMAIN vm)
    IN  out \o [i \in 1..Len(ks) |-> vm[ks[i]]]

\* ------------------------------------------------------------------ actions
NoOp == [name |-> "none", orig |-> <<0, 0>>, dest |-> <<0, 0>>]

Init ==
    /\ edges = <<>>
    /\ vertexMap = <<>>
    /\ op = NoOp
    /\ ret = Null
    /\ edgesOut = <<>>
    /\ accepted = {}
    /\ firstRet = <<>>
    /\ isRepeat = FALSE
    /\ heapEdges = <<>>
    /\ heapVertexMap = <<>>
    /\ edgeArrayCount = 0
    /\ edgeCount = 0
    /\ handed = <<>>
    /\ heapRet = Null

\* one call of addEdge(o, d); `accepted` records the unordered pairs the
\* caller has passed with o # d
AddEdgeCall(o, d) ==
    LET r == addEdge(edges, vertexMap, o, d)
    IN  /\ Len(r.edges) <= 2 * MaxEdges
        /\ edges' = r.edges
        /\ vertexMap' = r.vertexMap
        /\ ret' = r.ret
        /\ op' = [name |-> "addEdge", orig |-> o, dest |-> d]
        /\ edgesOut' = <<>>
        /\ accepted' = IF o # d THEN accepted \cup {{o, d}} ELSE accepted

AddEdge(o, d) ==
    /\ AddEdgeCall(o, d)
    /\ UNCHANGED <<firstRet, isRepeat>>
    /\ UNCHANGED heapVars

\* the same call, with the caller also remembering what the first call
\* with each ordered pair returned
AddEdgeHist(o, d) ==
    /\ AddEdgeCall(o, d)
    /\ Len(edges') <= 2 * MaxHistEdges
    /\ isRepeat' = (<<o, d>> \in DOMAIN firstRet)
    /\ firstRet' = IF o # d /\ <<o, d>> \notin DOMAIN firstRet
                   THEN MapPut(firstRet, <<o, d>>, ret')
                   ELSE firstRet
    /\ UNCHANGED heapVars

\* slip: the lookup uses vertexMap[orig], which adds a null entry for an
\* unknown origin
FindEdge_insertsKey(o, d) ==
    /\ ret' = findEdge(edges, vertexMap, o, d)
    /\ op' = [name |-> "findEdge", orig |-> o, dest |-> d]
    /\ edgesOut' = <<>>
    /\ vertexMap' = IF o \in DOMAIN vertexMap THEN vertexMap
                    ELSE MapPut(vertexMap, o, Null)
    /\ UNCHANGED <<edges, accepted, firstRet, isRepeat>>
    /\ UNCHANGED heapVars

FindEdge(o, d) ==
    /\ ret' = findEdge(edges, vertexMap, o, d)
    /\ op' = [name |-> "findEdge", orig |-> o, dest |-> d]
    /\ edgesOut' = <<>>
    /\ UNCHANGED <<edges, vertexMap, accepted, firstRet, isRepeat>>
    /\ UNCHANGED heapVars

GetVertexEdges ==
    /\ edgesOut' = getVertexEdges(vertexMap, <<>>)
    /\ op' = [name |-> "getVertexEdges", orig |-> <<0, 0>>, dest |-> <<0, 0>>]
    /\ ret' = Null
    /\ UNCHANGED <<edges, vertexMap, accepted, firstRet, isRepeat>>
    /\ UNCHANGED heapVars

Next ==
    \/ \E o \in Coords, d \in Coords : AddEdge(o, d)
    \/ \E o \in Coords, d \in Coords : FindEdge(o, d)
    \/ GetVertexEdges

Spec == Init /\ [][Next]_vars

\* a caller that only adds edges: it reaches the same graphs as Spec, whose
\* queries change neither edges nor vertexMap
NextAdd == \E o \in Coords, d \in Coords : AddEdge(o, d)

SpecAdd == Init /\ [][NextAdd]_vars

\* the state of the bulk-array storage as createEdge sees it
Heap == [edges |-> heapEdges, edgeArrayCount |-> edgeArrayCount,
         edgeCount |-> edgeCount, handed |-> handed, ret |-> heapRet]

\* one call of addEdge(o, d) made on both builds of the graph
AddEdgeBoth(o, d) ==
    LET r == addEdge_heap(Heap, heapVertexMap, o, d)
    IN  /\ AddEdgeCall(o, d)
        /\ heapEdges' = r.heap.edges
        /\ edgeArrayCount' = r.heap.edgeArrayCount
        /\ edgeCount' = r.heap.edgeCount
        /\ handed' = r.heap.handed
        /\ heapVertexMap' = r.vertexMap
        /\ heapRet' = r.ret
        /\ UNCHANGED <<firstRet, isRepeat>>

NextHeap == \E o \in Coords, d \in Coords : AddEdgeBoth(o, d)

SpecHeap == Init /\ [][NextHeap]_vars

\* a caller that only adds edges and remembers first results
NextHist == \E o \in Coords, d \in Coords : AddEdgeHist(o, d)

SpecHist == Init /\ [][NextHist]_vars

\* ------------------------------------------------------------ vocabulary
Handles == 1..Len(edges)

RECURSIVE NextIter(_, _)
\* the half-edge reached from h by k applications of next
NextIter(h, k) == IF k = 0 THEN h ELSE NextIter(edges[h].next, k - 1)

\* number of distinct accepted undirected edges incident to v
degree(v) == Cardinality({e \in accepted : v \in e})

\* half-edges met on the walk along next from vertexMap[v]
RingOf(v) == { NextIter(vertexMap[v], k) : k \in 0..Len(edges) }

AddCalled(o, d) == op = [name |-> "addEdge", orig |-> o, dest |-> d]

TypeOK ==
    /\ \A h \in Handles : edges[h].orig \in Coords
    /\ DOMAIN vertexMap \subseteq Coords
    /\ ret \in 0..Len(edges)

\* ------------------------------------------------------------------ claims

\* C1 (idempotence): when addEdge(o, d) is called with a pair it has been
\* called with before, it returns the half-edge the first such call
\* returned, and the number of half-edges and of vertexMap keys is unchanged.
C1_Idempotence ==
    [][\A o \in Coords, d \in Coords :
          (AddCalled(o, d)' /\ <<o, d>> \in DOMAIN firstRet)
          => /\ ret' = firstRet[<<o, d>>]
             /\ Len(edges') = Len(edges)
             /\ Cardinality(DOMAIN vertexMap') = Cardinality(DOMAIN vertexMap)]_vars

\* a repeated call made after further edges were added since the first one
C1_Witness ==
    /\ op.name = "addEdge"
    /\ isRepeat
    /\ ret = firstRet[<<op.orig, op.dest>>]
    /\ Len(edges) >= ret + 3

\* C2 (symmetry): for every pair {o, d} an addEdge call has accepted, in
\* that state and every later one findEdge(o, d) and findEdge(d, o) both
\* return half-edges, and the two are each other's sym.
C2_Symmetry ==
    \A o \in Coords, d \in Coords :
        {o, d} \in accepted /\ o # d
        => LET h1 == findEdge(edges, vertexMap, o, d)
               h2 == findEdge(edges, vertexMap, d, o)
           IN  /\ h1 # Null
               /\ h2 # Null
               /\ edges[h1].sym = h2
               /\ edges[h2].sym = h1

\* an accepted edge whose two lookups are not the ring entry points
C2_Witness ==
    \E o \in Coords, d \in Coords :
        /\ {o, d} \in accepted
        /\ o # d
        /\ Len(edges) = 2 * MaxEdges
        /\ findEdge(edges, vertexMap, o, d) # vertexMap[o]
        /\ findEdge(edges, vertexMap, d, o) # vertexMap[d]
        /\ findEdge(edges, vertexMap, o, d) # Null

\* C3 (degenerate rejection): addEdge(p, p) returns null and leaves
\* vertexMap and every stored half-edge (so every sym and next) unchanged,
\* whether or not p is a vertex.
C3_DegenerateRejection ==
    [][\A p \in Coords :
          AddCalled(p, p)' => /\ ret' = Null
                              /\ vertexMap' = vertexMap
                              /\ edges' = edges]_vars

\* a rejected call on a coordinate that is already a vertex
C3_Witness ==
    /\ op.name = "addEdge"
    /\ op.orig = op.dest
    /\ ret = Null
    /\ op.orig \in DOMAIN vertexMap

\* C4 (ring closure): following next from vertexMap[v] comes back to
\* vertexMap[v] for the first time after exactly degree(v) steps.
C4_RingClosure ==
    \A v \in DOMAIN vertexMap :
        /\ degree(v) >= 1
        /\ NextIter(vertexMap[v], degree(v)) = vertexMap[v]
        /\ \A k \in 1..(degree(v) - 1) : NextIter(vertexMap[v], k) # vertexMap[v]

\* a vertex of degree three
C4_Witness ==
    \E v \in DOMAIN vertexMap :
        /\ degree(v) = 3
        /\ NextIter(vertexMap[v], 3) = vertexMap[v]

\* C5 (one ring per vertex): the cycle through vertexMap[v] is exactly the
\* set of stored half-edges with origin v.
C5_OneRing ==
    /\ \A v \in DOMAIN vertexMap :
          RingOf(v) = { h \in Handles : edges[h].orig = v }
    /\ \A h \in Handles : edges[h].orig \in DOMAIN vertexMap

\* two vertices whose rings both hold more than one half-edge
C5_Witness ==
    \E v \in DOMAIN vertexMap, w \in DOMAIN vertexMap :
        /\ v # w
        /\ Cardinality(RingOf(v)) >= 2
        /\ Cardinality(RingOf(w)) >= 2

\* C6 (no duplicate edges): no two stored half-edges share origin and
\* destination, every ring holds each neighbour once, and there are twice
\* as many half-edges as distinct accepted unordered pairs.
C6_NoDuplicateEdges ==
    /\ \A h1 \in Handles, h2 \in Handles :
          (edges[h1].orig = edges[h2].orig /\ dest(edges, h1) = dest(edges, h2))
          => h1 = h2
    /\ \A v \in DOMAIN vertexMap :
          \A e \in accepted :
              v \in e => Cardinality({ h \in RingOf(v) : {dest(edges, h)} = e \ {v} }) = 1
    /\ Len(edges) = 2 * Cardinality(accepted)

\* the reversed pair (d, o) is passed after (o, d) created the edge
C6_Witness ==
    /\ op.name = "addEdge"
    /\ ret # Null
    /\ ret % 2 = 0
    /\ Len(edges) >= 4

\* C7 (sym pairing): every stored half-edge has a sym, distinct from it,
\* whose sym is the half-edge itself and whose origin differs from its own.
C7_SymPairing ==
    \A h \in Handles :
        /\ edges[h].sym \in Handles
        /\ edges[h].sym # h
        /\ edges[edges[h].sym].sym = h
        /\ edges[edges[h].sym].orig # edges[h].orig

\* the storage is full
C7_Witness == Len(edges) = 2 * MaxEdges /\ op.name = "addEdge" /\ ret = Len(edges) - 1

\* C8 (result of addEdge): for o # d the call returns a half-edge with
\* origin o and destination d, whether new or already present.
C8_AddEdgeResult ==
    (op.name = "addEdge" /\ op.orig # op.dest)
    => /\ ret \in Handles
       /\ edges[ret].orig = op.orig
       /\ edges[edges[ret].sym].orig = op.dest

\* the call returned the sym half of a pair created by an earlier (d, o)
C8_Witness ==
    /\ op.name = "addEdge"
    /\ op.orig # op.dest
    /\ ret \in Handles
    /\ ret % 2 = 0
    /\ edges[ret].orig = op.orig

\* C9 (findEdge is exact): findEdge(o, d) returns a half-edge exactly when
\* the pair {o, d}, o # d, was passed to addEdge, and that half-edge goes
\* from o to d; it returns null for an unknown o and for a missing edge.
C9_FindEdgeExact ==
    \A o \in Coords, d \in Coords :
        LET h == findEdge(edges, vertexMap, o, d)
        IN  /\ (h # Null) <=> (o # d /\ {o, d} \in accepted)
            /\ h # Null => (h \in Handles /\ edges[h].orig = o /\ dest(edges, h) = d)
            /\ o \notin DOMAIN vertexMap => h = Null

\* a lookup that misses although its origin is a vertex with two edges
C9_Witness ==
    /\ op.name = "findEdge"
    /\ op.orig # op.dest
    /\ op.orig \in DOMAIN vertexMap
    /\ degree(op.orig) = 2
    /\ ret = Null

\* C10 (vertexMap is exact): its keys are the endpoints of the accepted
\* calls, and each key maps to a stored half-edge with that origin.
C10_VertexMapExact ==
    /\ DOMAIN vertexMap = UNION accepted
    /\ \A c \in DOMAIN vertexMap :
          /\ vertexMap[c] \in Handles
          /\ edges[vertexMap[c]].orig = c

\* every coordinate has become a vertex
C10_Witness ==
    /\ DOMAIN vertexMap = Coords
    /\ UNION accepted = Coords
\* C11 (effect bound of one addEdge call): the call creates no or exactly
\* two half-edges, adds vertexMap keys only among o and d, and leaves every
\* half-edge whose origin is neither o nor d, and every vertexMap entry of
\* another key, as it was.
C11_EffectBound ==
    [][\A o \in Coords, d \in Coords :
          AddCalled(o, d)'
          => /\ Len(edges') \in {Len(edges), Len(edges) + 2}
             /\ DOMAIN vertexMap \subseteq DOMAIN vertexMap'
             /\ (DOMAIN vertexMap') \ (DOMAIN vertexMap) \subseteq {o, d}
             /\ \A c \in (DOMAIN vertexMap) \ {o, d} : vertexMap'[c] = vertexMap[c]
             /\ \A h \in Handles :
                   edges[h].orig \notin {o, d} => edges'[h] = edges[h]]_vars

\* a new edge spliced into two existing rings while other vertices exist
C11_Witness ==
    /\ op.name = "addEdge"
    /\ ret = Len(edges) - 1
    /\ Len(edges) = 6
    /\ degree(op.orig) >= 2
    /\ degree(op.dest) >= 2
    /\ \E h \in Handles : edges[h].orig \notin {op.orig, op.dest}

\* C12 (getVertexEdges): the sequence produced has one entry per vertexMap
\* key, the entries have pairwise distinct origins, and the origins are
\* exactly the keys.
C12_GetVertexEdges ==
    op.name = "getVertexEdges"
    => /\ Len(edgesOut) = Cardinality(DOMAIN vertexMap)
       /\ \A i \in 1..Len(edgesOut) : edgesOut[i] \in Handles
       /\ \A i \in 1..Len(edgesOut), j \in 1..Len(edgesOut) :
             i # j => edges[edgesOut[i]].orig # edges[edgesOut[j]].orig
       /\ { edges[edgesOut[i]].orig : i \in 1..Len(edgesOut) } = DOMAIN vertexMap

\* the enumeration of a graph in which every coordinate is a vertex
C12_Witness ==
    /\ op.name = "getVertexEdges"
    /\ Len(edgesOut) = Cardinality(Coords)

\* C13 (half-edge immutability): no call changes the origin or the sym of
\* a stored half-edge, and no stored half-edge is removed.
C13_Immutability ==
    [][/\ Len(edges') >= Len(edges)
       /\ \A h \in Handles : /\ edges'[h].orig = edges[h].orig
                              /\ edges'[h].sym = edges[h].sym]_vars

\* the first half-edge has had its next rewritten and kept its sym
C13_Witness ==
    /\ Len(edges) = 6
    /\ edges[1].next \notin {1, Null}
    /\ edges[1].sym = 2
    /\ edges[edges[1].next].next # 1

\* C14 (splice preserves the ring): when addEdge(o, d) creates an edge, the
\* ring of an end point that was a vertex gains exactly the new half-edge
\* and loses none; at an end point that was unknown the new half-edge is the
\* vertexMap entry and a ring of size one.
C14_SplicePreservesRing ==
    [][\A o \in Coords, d \in Coords :
          (AddCalled(o, d)' /\ Len(edges') = Len(edges) + 2)
          => \A i \in {1, 2} :
                LET v == IF i = 1 THEN o ELSE d
                    e == Len(edges) + i
                IN  IF v \in DOMAIN vertexMap
                    THEN /\ e \notin RingOf(v)
                         /\ RingOf(v)' = RingOf(v) \cup {e}
                         /\ NextIter(vertexMap[v], Cardinality(RingOf(v)))'
                               = vertexMap'[v]
                    ELSE /\ vertexMap'[v] = e
                         /\ edges'[e].next = e]_vars

\* the third edge of a star: spliced at the centre, a ring of one at the tip
C14_Witness ==
    /\ op.name = "addEdge"
    /\ ret = Len(edges) - 1
    /\ degree(op.orig) = 3
    /\ degree(op.dest) = 1
    /\ vertexMap[op.dest] = Len(edges)
    /\ edges[Len(edges)].next = Len(edges)

\* C16 (representative stability): a vertexMap entry, once made, is never
\* overwritten or removed.
C16_RepresentativeStability ==
    [][\A c \in DOMAIN vertexMap :
          /\ c \in DOMAIN vertexMap'
          /\ vertexMap'[c] = vertexMap[c]]_vars

\* the first entry made still stands after two more edges at its vertex
C16_Witness ==
    \E c \in DOMAIN vertexMap :
        /\ vertexMap[c] = 1
        /\ degree(c) = 3
        /\ op.name = "addEdge"

\* C17 (lookup stability): a half-edge findEdge(o, d) returns is returned
\* by findEdge(o, d) in every later state.
C17_LookupStability ==
    [][\A o \in Coords, d \in Coords :
          findEdge(edges, vertexMap, o, d) # Null
          => findEdge(edges', vertexMap', o, d) = findEdge(edges, vertexMap, o, d)]_vars

\* the oldest edge is still found from both ends after edges were added at
\* both of them
C17_Witness ==
    \E o \in Coords, d \in Coords :
        /\ findEdge(edges, vertexMap, o, d) = 1
        /\ findEdge(edges, vertexMap, d, o) = 2
        /\ degree(o) = 2
        /\ degree(d) = 2

\* C18 (queries are read-only): findEdge and getVertexEdges leave vertexMap
\* and every stored half-edge unchanged; findEdge on an unknown origin adds
\* no key.
C18_QueriesReadOnly ==
    [][op'.name \in {"findEdge", "getVertexEdges"}
       => /\ vertexMap' = vertexMap
          /\ edges' = edges]_vars

\* a lookup from a coordinate that is not a vertex of a non-empty graph
C18_Witness ==
    /\ op.name = "findEdge"
    /\ op.orig \notin DOMAIN vertexMap
    /\ ret = Null
    /\ Len(edges) > 0
\* C15 (termination): the ring walk of find started at vertexMap[o] ends by
\* meeting the destination or by being back at its start, after following
\* next at most degree(o) times; the scan that places a new half-edge in a
\* ring ends at an insertion point within one turn of the ring; and addEdge
\* returns null only for o = d.
C15_Termination ==
    /\ \A o \in DOMAIN vertexMap, d \in Coords :
          LET t == findTrace(edges, vertexMap[o], vertexMap[o], d, 0)
          IN  /\ t.end \in {"found", "closed"}
              /\ t.steps <= degree(o)
    /\ \A o \in Coords, d \in Coords :
          (o # d /\ {o, d} \notin accepted)
          => LET c   == create(edges, o, d)
                 e   == c.ret
                 es1 == IF o \in DOMAIN vertexMap
                        THEN HalfEdge_insert(c.edges, vertexMap[o], e)
                        ELSE c.edges
             IN  /\ o \in DOMAIN vertexMap
                    => LET t == insertionTrace(c.edges, vertexMap[o], vertexMap[o], e, 0)
                       IN  t.end = "placed" /\ t.steps < degree(o)
                 /\ d \in DOMAIN vertexMap
                    => LET t == insertionTrace(es1, vertexMap[d], vertexMap[d], es1[e].sym, 0)
                       IN  t.end = "placed" /\ t.steps < degree(d)
    /\ (op.name = "addEdge" /\ ret = Null) => op.orig = op.dest

\* a repeated addEdge whose lookup followed next twice round a ring of three
\* before it met the edge
C15_Witness ==
    /\ op.name = "addEdge"
    /\ ret \in Handles
    /\ ret < Len(edges) - 1
    /\ degree(op.orig) = 3
    /\ findTrace(edges, vertexMap[op.orig], vertexMap[op.orig], op.dest, 0)
          = [end |-> "found", steps |-> 2]

\* what must hold whenever createEdge is entered with bulk-array state H:
\* the slot index is inside the array, the array counter names the last
\* array allocated (or no array exists yet and the call allocates array 0),
\* and the slot the call hands out is inside the storage and new
EntryOK(H) ==
    /\ H.edgeCount < HalfEdgeArraySize
    /\ IF Len(H.edges) = 0 THEN H.edgeArrayCount = 0
       ELSE (H.edgeArrayCount + 1) * HalfEdgeArraySize = Len(H.edges)
    /\ LET r == createEdge_heap(H, <<0, 0>>)
       IN  /\ r.ret \in 1..Len(r.edges)
           /\ \A k \in 1..Len(H.handed) : H.handed[k] # r.ret

\* handle of the bulk-array build that stands for handle h of the
\* per-object build: the one createEdge returned at the same call
HeapHandle(h) == IF h = Null THEN Null ELSE handed[h]

\* the two builds hold the same graph
SameGraph ==
    /\ Len(handed) = Len(edges)
    /\ \A h \in Handles :
          /\ heapEdges[handed[h]].orig = edges[h].orig
          /\ heapEdges[handed[h]].sym = HeapHandle(edges[h].sym)
          /\ heapEdges[handed[h]].next = HeapHandle(edges[h].next)
    /\ DOMAIN heapVertexMap = DOMAIN vertexMap
    /\ \A c \in DOMAIN vertexMap : heapVertexMap[c] = HeapHandle(vertexMap[c])
    /\ heapRet = HeapHandle(ret)

====
